---------------------------- MODULE Spec2Model ----------------------------
(* Model of the inquiry intake handler create_inquiry (backend/main.py)    *)
(* with the Inquiry / InquiryFile schemas (schemas.py).                    *)
(*                                                                         *)
(* The handler is an `async def` served by one event loop: a request runs  *)
(* uninterrupted from one `await` to the next.  The only await in the      *)
(* handler is `await f.read()` (main.py:61); the file write (62-63) and    *)
(* the create_document call (86) are ordinary blocking calls.              *)
EXTENDS Integers, Sequences, FiniteSets, TLC

(***************************************************************************)
(* Bounds of the model.                                                    *)
(***************************************************************************)
NumReqs  == 2   \* concurrent requests
MaxFiles == 2   \* uploads per request
MaxName  == 3   \* filename length in the sanitization specification

(***************************************************************************)
(* Program constants.                                                      *)
(***************************************************************************)
DetailMax == 100            \* str(e)[:100]
StatusError == 500          \* HTTPException(status_code=500, ...)

None == "<None>"            \* Python None (distinct from every str used)

UploadPrefix == "Fehler beim Datei-Upload: "
DbPrefix     == "Datenbankfehler: "
SuccessMessage == "Anfrage erfolgreich übermittelt"
DefaultSource  == "website"
DefaultContentType == "application/octet-stream"
Collection == "inquiry"

Reqs == 1..NumReqs
Idle == 0                   \* the event loop runs no handler

(***************************************************************************)
(* Inputs.  Filenames and e-mail addresses are sequences of characters,    *)
(* contents are sequences of bytes.                                        *)
(***************************************************************************)
Chars == {"a", "/", "\\", "_"}

ValidAddress == <<"m", "@", "e", ".", "d">>
NotAnEmail   == <<"n", "o", "t", "-", "a", "n">>
Emails == {ValidAddress, NotAnEmail}

Sources == {None, "", "flyer"}

Uploads ==
  { [filename |-> <<"d", "/", "p">>, content_type |-> "application/pdf", content |-> <<1, 2>>],
    [filename |-> <<"d", "/", "p">>, content_type |-> None,              content |-> <<3>>],
    [filename |-> <<"e", "\\">>,     content_type |-> "",                content |-> <<>>] }

\* len(str(e)) of the exception raised by f.read(), by open/write and by
\* create_document: one shorter and two longer than the [:100] slice keeps
ErrLen == [read |-> 17, write |-> 130, create |-> 250]

RECURSIVE SeqsUpTo(_, _)
SeqsUpTo(S, n) ==
  IF n = 0 THEN { <<>> }
  ELSE LET shorter == SeqsUpTo(S, n - 1)
       IN  shorter \cup { Append(s, x) : s \in { t \in shorter : Len(t) = n - 1 }, x \in S }

Min(a, b) == IF a < b THEN a ELSE b

(***************************************************************************)
(* Pure functions of the handler.                                          *)
(***************************************************************************)
\* str.replace(old, new) for one-character old and new
Replace(s, old, new) == [i \in 1..Len(s) |-> IF s[i] = old THEN new ELSE s[i]]

\* mutant: the second replace is forgotten
SanitizeSlashOnly(name) == Replace(name, "/", "_")

\* safe_name = f.filename.replace("/", "_").replace("\\", "_")
Sanitize(name) == Replace(Replace(name, "/", "_"), "\\", "_")

\* mutant: `x if x is not None else default`
OrDefaultNoneOnly(x, default) == IF x = None THEN default ELSE x

\* x or default
OrDefault(x, default) == IF x \in {None, ""} THEN default ELSE x

\* mutant: filename=f.filename
InquiryFileRawName(f, content) ==
  [filename     |-> f.filename,
   content_type |-> OrDefault(f.content_type, DefaultContentType),
   size         |-> Len(content)]

\* InquiryFile(filename=safe_name, content_type=f.content_type or ..., size=len(content))
InquiryFile(f, content) ==
  [filename     |-> Sanitize(f.filename),
   content_type |-> OrDefault(f.content_type, DefaultContentType),
   size         |-> Len(content)]

\* mutant: email declared `str`, as in the User schema
ValidEmailAsStr(e) == Len(e) >= 0

\* EmailStr: one "@", a non-empty local part, a domain with an inner "."
ValidEmail(e) ==
  /\ Cardinality({i \in 1..Len(e) : e[i] = "@"}) = 1
  /\ LET at == CHOOSE i \in 1..Len(e) : e[i] = "@"
     IN  /\ at > 1
         /\ \E j \in (at + 2)..(Len(e) - 1) : e[j] = "."

\* Inquiry(..., email=email, files=file_meta, source=source or "website");
\* name, phone, zip_city, project_type and description are passed through
\* as unconstrained str fields and are left out.
Inquiry(form, meta) ==
  [email |-> form.email, files |-> meta, source |-> OrDefault(form.source, DefaultSource)]

\* str(e)[:100]
Truncate(len) == Min(len, DetailMax)

HTTPException(prefix, len) ==
  [kind |-> "raise", exc |-> "HTTPException", status_code |-> StatusError,
   prefix |-> prefix, textLen |-> Truncate(len)]

ValidationError == [kind |-> "raise", exc |-> "ValidationError"]

InquiryResponse(id) == [kind |-> "return", id |-> id, message |-> SuccessMessage]

NoResult == [kind |-> "none"]

(***************************************************************************)
(* State.                                                                  *)
(***************************************************************************)
VARIABLES
  req,         \* req[r]: the submitted form fields and uploads
  pc,          \* pc[r]: position of the handler of request r
  idx,         \* idx[r]: 1-based index of the upload being processed
  safe_name,   \* safe_name[r]: the local of main.py:59
  content,     \* content[r]: the local of main.py:61
  file_meta,   \* file_meta[r]: the list built by the loop
  inquiry,     \* inquiry[r]: the record built at main.py:74, or None
  result,      \* result[r]: what the handler returned or raised
  loop,        \* the request the event loop is running, or Idle
  upload_dir,  \* whether ./uploads exists
  disk,        \* files of ./uploads: sanitized name -> content
  store,       \* the "inquiry" collection, in insertion order
  io           \* io[r]: reads, opens for writing and create_document calls
               \* issued by r, and the I/O faults the environment dealt it

vars == <<req, pc, idx, safe_name, content, file_meta, inquiry, result, loop,
          upload_dir, disk, store, io>>

Forms == [email : Emails, source : Sources, files : SeqsUpTo(Uploads, MaxFiles)]

\* the submissions request 1 races with
Background ==
  { [email |-> ValidAddress, source |-> "flyer", files |-> << >>],
    [email |-> ValidAddress, source |-> None,
     files |-> << [filename |-> <<"d", "/", "p">>, content_type |-> "application/pdf",
                   content |-> <<1, 2>>] >>] }

InitLocals ==
  /\ pc = [r \in Reqs |-> "pending"]
  /\ idx = [r \in Reqs |-> 1]
  /\ safe_name = [r \in Reqs |-> <<>>]
  /\ content = [r \in Reqs |-> <<>>]
  /\ file_meta = [r \in Reqs |-> <<>>]
  /\ inquiry = [r \in Reqs |-> None]
  /\ result = [r \in Reqs |-> NoResult]
  /\ loop = Idle
  /\ upload_dir = FALSE
  /\ disk = << >>
  /\ store = << >>
  /\ io = [r \in Reqs |-> [reads |-> 0, opens |-> 0, creates |-> 0, faults |-> 0]]

\* request 1 submits any form; the requests served concurrently with it
\* submit a form of Background
Init ==
  /\ req \in [Reqs -> Forms]
  /\ \A r \in Reqs \ {1} : req[r] \in Background
  /\ InitLocals

CurFile(r) == req[r].files[idx[r]]

\* head of `for f in files or []`: the next upload, or the code after the loop
LoopHead(r, i) == IF i <= Len(req[r].files) THEN "read" ELSE "build"

\* the handler ends (returns or raises): the event loop is free again
Finish(r, res) ==
  /\ result' = [result EXCEPT ![r] = res]
  /\ pc' = [pc EXCEPT ![r] = "done"]
  /\ loop' = Idle

\* os.path.join(upload_dir, "") is the directory itself: open() raises
IsFilePath(name) == name # <<>>

\* mutant: the file is opened with "ab"
WriteFileAppend(d, name, bytes) ==
  [n \in DOMAIN d \cup {name} |->
     IF n = name THEN (IF name \in DOMAIN d THEN d[name] ELSE << >>) \o bytes ELSE d[n]]

\* open(dest_path, "wb") creates or truncates, out.write(bytes) fills the file
WriteFile(d, name, bytes) ==
  [n \in DOMAIN d \cup {name} |-> IF n = name THEN bytes ELSE d[n]]

(***************************************************************************)
(* Steps of the handler.                                                   *)
(***************************************************************************)
\* main.py:52-56: the event loop starts the handler
Start(r) ==
  /\ pc[r] = "pending"
  /\ loop = Idle
  /\ loop' = r
  /\ upload_dir' = TRUE
  /\ file_meta' = [file_meta EXCEPT ![r] = <<>>]
  /\ pc' = [pc EXCEPT ![r] = LoopHead(r, 1)]
  /\ UNCHANGED <<req, idx, safe_name, content, inquiry, result, disk, store, io>>

\* main.py:59-61: safe_name, dest_path, then `await f.read()` suspends
AwaitRead(r) ==
  /\ pc[r] = "read"
  /\ loop = r
  /\ safe_name' = [safe_name EXCEPT ![r] = Sanitize(CurFile(r).filename)]
  /\ io' = [io EXCEPT ![r].reads = @ + 1]
  /\ pc' = [pc EXCEPT ![r] = "reading"]
  /\ loop' = Idle
  /\ UNCHANGED <<req, idx, content, file_meta, inquiry, result, upload_dir, disk, store>>

\* main.py:61-62: the read completes, the handler resumes and calls open/write
ReadReturns(r) ==
  /\ pc[r] = "reading"
  /\ loop = Idle
  /\ loop' = r
  /\ content' = [content EXCEPT ![r] = CurFile(r).content]
  /\ pc' = [pc EXCEPT ![r] = "writing"]
  /\ UNCHANGED <<req, idx, safe_name, file_meta, inquiry, result, upload_dir, disk, store, io>>

\* main.py:61,71-72: the read raises
ReadRaises(r) ==
  /\ pc[r] = "reading"
  /\ loop = Idle
  /\ io' = [io EXCEPT ![r].faults = @ + 1]
  /\ Finish(r, HTTPException(UploadPrefix, ErrLen.read))
  /\ UNCHANGED <<req, idx, safe_name, content, file_meta, inquiry, upload_dir, disk, store>>

\* main.py:62-70: the blocking open/write returns; metadata appended; loop head
WriteReturns(r) ==
  /\ pc[r] = "writing"
  /\ loop = r
  /\ upload_dir
  /\ IsFilePath(safe_name[r])
  /\ disk' = WriteFile(disk, safe_name[r], content[r])
  /\ io' = [io EXCEPT ![r].opens = @ + 1]
  /\ file_meta' = [file_meta EXCEPT ![r] = Append(@, InquiryFile(CurFile(r), content[r]))]
  /\ idx' = [idx EXCEPT ![r] = @ + 1]
  /\ pc' = [pc EXCEPT ![r] = LoopHead(r, idx[r] + 1)]
  /\ UNCHANGED <<req, safe_name, content, inquiry, result, loop, upload_dir, store>>

\* the files of d that request r has not written
WithoutFilesOf(d, r) ==
  [n \in DOMAIN d \ {file_meta[r][j].filename : j \in 1..Len(file_meta[r])} |-> d[n]]

\* mutant: the except block removes the files the request has written
WriteRaisesRollback(r) ==
  /\ pc[r] = "writing"
  /\ loop = r
  /\ disk' = WithoutFilesOf(disk, r)
  /\ io' = [io EXCEPT ![r].faults = @ + 1]
  /\ Finish(r, HTTPException(UploadPrefix, ErrLen.write))
  /\ UNCHANGED <<req, idx, safe_name, content, file_meta, inquiry, upload_dir, store>>

\* main.py:62-63,71-72: open raises (nothing changed), or open has truncated
\* the file and write raises after k bytes
WriteRaises(r) ==
  /\ pc[r] = "writing"
  /\ loop = r
  /\ \/ /\ UNCHANGED disk
        /\ io' = [io EXCEPT ![r].faults = IF IsFilePath(safe_name[r]) THEN @ + 1 ELSE @]
     \/ /\ IsFilePath(safe_name[r])
        /\ \E k \in 0..(Len(content[r]) - 1) :
             disk' = WriteFile(disk, safe_name[r], SubSeq(content[r], 1, k))
        /\ io' = [io EXCEPT ![r].opens = @ + 1, ![r].faults = @ + 1]
  /\ Finish(r, HTTPException(UploadPrefix, ErrLen.write))
  /\ UNCHANGED <<req, idx, safe_name, content, file_meta, inquiry, upload_dir, store>>

\* main.py:74-86: build the Inquiry (pydantic validates), call create_document
Build(r) ==
  /\ pc[r] = "build"
  /\ loop = r
  /\ IF ValidEmail(req[r].email)
       THEN /\ inquiry' = [inquiry EXCEPT ![r] = Inquiry(req[r], file_meta[r])]
            /\ io' = [io EXCEPT ![r].creates = @ + 1]
            /\ pc' = [pc EXCEPT ![r] = "inserting"]
            /\ UNCHANGED <<result, loop>>
       ELSE /\ Finish(r, ValidationError)
            /\ UNCHANGED <<inquiry, io>>
  /\ UNCHANGED <<req, idx, safe_name, content, file_meta, upload_dir, disk, store>>

\* create_document(collection, record) of the database module: inserts the
\* record and returns the generated id, or raises and inserts nothing
NewId(s) == Len(s) + 1
Insert(s, collection, r, doc) ==
  Append(s, [id |-> NewId(s), collection |-> collection, by |-> r, doc |-> doc])

\* main.py:86-87: create_document returns
CreateReturns(r) ==
  /\ pc[r] = "inserting"
  /\ loop = r
  /\ store' = Insert(store, Collection, r, inquiry[r])
  /\ Finish(r, InquiryResponse(NewId(store)))
  /\ UNCHANGED <<req, idx, safe_name, content, file_meta, inquiry, upload_dir, disk, io>>

\* mutant: the except block removes the files the request has written
CreateRaisesCleanup(r) ==
  /\ pc[r] = "inserting"
  /\ loop = r
  /\ disk' = WithoutFilesOf(disk, r)
  /\ io' = [io EXCEPT ![r].faults = @ + 1]
  /\ Finish(r, HTTPException(DbPrefix, ErrLen.create))
  /\ UNCHANGED <<req, idx, safe_name, content, file_meta, inquiry, upload_dir, store>>

\* main.py:86,88-89: create_document raises
CreateRaises(r) ==
  /\ pc[r] = "inserting"
  /\ loop = r
  /\ io' = [io EXCEPT ![r].faults = @ + 1]
  /\ Finish(r, HTTPException(DbPrefix, ErrLen.create))
  /\ UNCHANGED <<req, idx, safe_name, content, file_meta, inquiry, upload_dir, disk, store>>

\* every step request r can take
Step(r) ==
  \/ Start(r)
  \/ AwaitRead(r)
  \/ ReadReturns(r)
  \/ ReadRaises(r)
  \/ WriteReturns(r)
  \/ WriteRaises(r)
  \/ Build(r)
  \/ CreateReturns(r)
  \/ CreateRaises(r)

Next == \E r \in Reqs : Step(r)

Spec == Init /\ [][Next]_vars

(***************************************************************************)
(* Specification for the filename sanitization: request 1 uploads one file *)
(* whose name is any string over Chars of length <= MaxName, the other     *)
(* requests upload nothing.                                                *)
(***************************************************************************)
InitSanitize ==
  /\ \E n \in SeqsUpTo(Chars, MaxName) :
       req = [r \in Reqs |->
                [email |-> ValidAddress, source |-> None,
                 files |-> IF r = 1
                             THEN << [filename |-> n, content_type |-> None, content |-> <<1>>] >>
                             ELSE << >>]]
  /\ InitLocals

SpecSanitize == InitSanitize /\ [][Next]_vars

(***************************************************************************)
(* Vocabulary of the properties.                                           *)
(***************************************************************************)
Done(r) == pc[r] = "done"
Returned(r) == result[r].kind = "return"
Raised(r) == result[r].kind = "raise"

IsHttpError(res, prefix) ==
  /\ res.kind = "raise"
  /\ res.exc = "HTTPException"
  /\ res.status_code = 500
  /\ res.prefix = prefix

UploadFailed(r) == IsHttpError(result[r], "Fehler beim Datei-Upload: ")
StoreFailed(r) == IsHttpError(result[r], "Datenbankfehler: ")

\* positions of the records request r has in the collection
RecordsOf(r) == {i \in DOMAIN store : store[i].by = r}

Separators == {"/", "\\"}

\* s is orig with every path separator replaced by "_" and nothing else changed
IsSanitizedOf(s, orig) ==
  /\ Len(s) = Len(orig)
  /\ \A i \in 1..Len(orig) : s[i] = (IF orig[i] \in Separators THEN "_" ELSE orig[i])

\* an address like "not-an-email"
Malformed(e) == \A i \in 1..Len(e) : e[i] # "@"

NoFaults(r) == io[r].faults = 0

(***************************************************************************)
(* C1.  When a submission with N uploads returns success, the record       *)
(* passed to create_document("inquiry", ...) has N file entries in input   *)
(* order; entry i carries the sanitized name of upload i and the byte      *)
(* length of its content, and a file of that name exists in uploads/.      *)
(***************************************************************************)
C1_FilesMatchUploads ==
  \A r \in Reqs :
    Returned(r) =>
      LET rec == inquiry[r]
          ups == req[r].files
      IN  /\ io[r].creates = 1
          /\ \A i \in RecordsOf(r) : store[i].collection = "inquiry" /\ store[i].doc = rec
          /\ Len(rec.files) = Len(ups)
          /\ \A k \in 1..Len(ups) :
               /\ IsSanitizedOf(rec.files[k].filename, ups[k].filename)
               /\ rec.files[k].size = Len(ups[k].content)
               /\ rec.files[k].filename \in DOMAIN disk

C1_Witness ==
  \E r \in Reqs :
    /\ Returned(r)
    /\ Len(req[r].files) = 2
    /\ req[r].files[1].filename # req[r].files[2].filename
    /\ \E k \in 1..2 : \E i \in 1..Len(req[r].files[k].filename) :
         req[r].files[k].filename[i] \in Separators

(***************************************************************************)
(* C2.  No partial success: the collection holds exactly one record for    *)
(* each request that returned {id, message} and none for any other         *)
(* request; a request with a malformed e-mail fails without ever calling   *)
(* create_document; no request calls create_document twice.                *)
(***************************************************************************)
C2_NoPartialSuccess ==
  \A r \in Reqs :
    /\ Cardinality(RecordsOf(r)) = (IF Returned(r) THEN 1 ELSE 0)
    /\ Returned(r) =>
         /\ result[r].message = "Anfrage erfolgreich übermittelt"
         /\ \A i \in RecordsOf(r) : store[i].id = result[r].id
    /\ io[r].creates <= 1
    /\ Malformed(req[r].email) => io[r].creates = 0 /\ (Done(r) => Raised(r))

C2_Witness ==
  \E r, q \in Reqs :
    /\ Returned(r)
    /\ Done(q) /\ Malformed(req[q].email) /\ Raised(q)
    /\ Len(store) = 1

(***************************************************************************)
(* C3.  A submission with a malformed e-mail and at least one upload is    *)
(* rejected before any file I/O: once it has ended (no I/O fault dealt to  *)
(* it) it has opened no file of uploads/ for writing.                      *)
(***************************************************************************)
C3_MalformedEmailWritesNoFile ==
  \A r \in Reqs :
    (Malformed(req[r].email) /\ Len(req[r].files) >= 1 /\ Done(r) /\ NoFaults(r)) =>
      io[r].opens = 0

(***************************************************************************)
(* C4.  If an I/O step fails while the k-th upload is processed, the       *)
(* request aborts at once with HTTP 500 "Fehler beim Datei-Upload: ...";   *)
(* uploads k+1..N are never read or written, no record is inserted, and    *)
(* the files written for uploads 1..k-1 stay on disk unchanged.            *)
(***************************************************************************)
\* the step in which the handler of r leaves the upload loop by raising
UploadAbort(r) == pc[r] \in {"reading", "writing"} /\ pc'[r] = "done"

\* after the abort: uploads 1..k read, at most 1..k opened, nothing inserted
AbortedAtK(r) ==
  UploadFailed(r) =>
    /\ Done(r)
    /\ io[r].reads = idx[r]
    /\ io[r].opens \in {idx[r] - 1, idx[r]}
    /\ Len(file_meta[r]) = idx[r] - 1
    /\ io[r].creates = 0
    /\ RecordsOf(r) = {}

C4_Original ==
  /\ [][\A r \in Reqs :
          UploadAbort(r) =>
            /\ IsHttpError(result'[r], "Fehler beim Datei-Upload: ")
            /\ store' = store
            /\ \A j \in 1..(idx[r] - 1) :
                 LET n == file_meta[r][j].filename
                 IN  n \in DOMAIN disk' /\ disk'[n] = disk[n]]_vars
  /\ [](\A r \in Reqs : AbortedAtK(r))

(* C4 as amended: the files written for uploads 1..k-1 all stay on disk,   *)
(* and unchanged except the one (if any) stored under the sanitized name   *)
(* of the k-th upload, which the failed open/write may leave truncated.    *)
C4_Amended ==
  /\ [][\A r \in Reqs :
          UploadAbort(r) =>
            /\ IsHttpError(result'[r], "Fehler beim Datei-Upload: ")
            /\ store' = store
            /\ \A j \in 1..(idx[r] - 1) :
                 LET n == file_meta[r][j].filename
                 IN  /\ n \in DOMAIN disk'
                     /\ n # safe_name[r] => disk'[n] = disk[n]]_vars
  /\ [](\A r \in Reqs : AbortedAtK(r))

C4_Witness ==
  \E r \in Reqs :
    /\ UploadFailed(r)
    /\ idx[r] = 2
    /\ Len(req[r].files) = 2
    /\ io[r].opens = 2
    /\ file_meta[r][1].filename # safe_name[r]
    /\ disk[safe_name[r]] # content[r]

(***************************************************************************)
(* C5.  If create_document fails, the request ends with HTTP 500           *)
(* "Datenbankfehler: ...", create_document was called once (no retry), the *)
(* store holds no record of the request, every file the request wrote is   *)
(* still on disk, and the event loop is free for the other requests.       *)
(***************************************************************************)
StoreFailureLeaves(r) ==
  StoreFailed(r) =>
    /\ Done(r)
    /\ io[r].creates = 1
    /\ RecordsOf(r) = {}
    /\ Len(file_meta[r]) = Len(req[r].files)
    /\ \A j \in 1..Len(file_meta[r]) : file_meta[r][j].filename \in DOMAIN disk
    /\ loop # r
    /\ \A q \in Reqs : (pc[q] = "pending" /\ loop = Idle) => ENABLED Start(q)

C5_StoreFailure ==
  /\ [][\A r \in Reqs :
          (pc[r] = "inserting" /\ result'[r].kind = "raise") =>
            /\ IsHttpError(result'[r], "Datenbankfehler: ")
            /\ result'[r].textLen <= 100
            /\ store' = store
            /\ disk' = disk
            /\ loop' = Idle]_vars
  /\ [](\A r \in Reqs : StoreFailureLeaves(r))

C5_Witness ==
  \E r, q \in Reqs :
    /\ StoreFailed(r)
    /\ Len(file_meta[r]) = 2
    /\ Returned(q)
    /\ store[1].by = q

(***************************************************************************)
(* C6.  Every failure of a request is converted at the handler into the    *)
(* same error: an HTTPException with status 500 and a German diagnostic    *)
(* of at most 100 characters after its prefix; no other exception leaves   *)
(* the handler.                                                            *)
(***************************************************************************)
C6_UniformErrors ==
  \A r \in Reqs :
    (Done(r) /\ ~Returned(r)) =>
      /\ result[r].exc = "HTTPException"
      /\ result[r].status_code = 500
      /\ result[r].prefix \in {"Fehler beim Datei-Upload: ", "Datenbankfehler: "}
      /\ result[r].textLen <= 100

(***************************************************************************)
(* C7.  Two requests that each upload one file under the same original     *)
(* name (no other request writing that name, no I/O fault dealt to them)   *)
(* both succeed under every interleaving; uploads/<sanitized name> always  *)
(* holds one of the two payloads in full; each record reports the byte     *)
(* length of its own request's payload.                                    *)
(***************************************************************************)
C7_SameNameRace ==
  \A r, q \in Reqs :
    (/\ r # q
     /\ req[r].email = ValidAddress /\ req[q].email = ValidAddress
     /\ Len(req[r].files) = 1 /\ Len(req[q].files) = 1
     /\ req[r].files[1].filename = req[q].files[1].filename
     /\ \A o \in Reqs \ {r, q} : \A k \in 1..Len(req[o].files) :
          ~IsSanitizedOf(Sanitize(req[r].files[1].filename), req[o].files[k].filename)
     /\ NoFaults(r) /\ NoFaults(q))
    =>
      LET n  == Sanitize(req[r].files[1].filename)
          pr == req[r].files[1].content
          pq == req[q].files[1].content
      IN  /\ n \in DOMAIN disk => disk[n] \in {pr, pq}
          /\ Done(r) =>
               /\ Returned(r)
               /\ IsSanitizedOf(n, req[r].files[1].filename)
               /\ n \in DOMAIN disk
               /\ \A i \in RecordsOf(r) :
                    /\ store[i].doc.files[1].filename = n
                    /\ store[i].doc.files[1].size = Len(pr)

C7_Witness ==
  \E r, q \in Reqs :
    /\ r # q
    /\ Returned(r) /\ Returned(q)
    /\ Len(req[r].files) = 1 /\ Len(req[q].files) = 1
    /\ req[r].files[1].filename = req[q].files[1].filename
    /\ disk[inquiry[r].files[1].filename] = req[q].files[1].content
    /\ inquiry[r].files[1].size # Len(req[q].files[1].content)
    /\ inquiry[r].files[1].size = Len(req[r].files[1].content)

(***************************************************************************)
(* C8.  A valid submission without files passes exactly one record to      *)
(* create_document; its files are empty and its source is the supplied     *)
(* source, or "website" when the source is omitted or empty; when          *)
(* create_document returns, the response is the generated id with the      *)
(* message "Anfrage erfolgreich übermittelt".                              *)
(***************************************************************************)
C8_ZeroFiles ==
  \A r \in Reqs :
    (req[r].email = ValidAddress /\ Len(req[r].files) = 0 /\ Done(r)) =>
      /\ io[r].creates = 1
      /\ inquiry[r].files = << >>
      /\ inquiry[r].source =
           (IF req[r].source \in {None, ""} THEN "website" ELSE req[r].source)
      /\ NoFaults(r) =>
           /\ Returned(r)
           /\ result[r].message = "Anfrage erfolgreich übermittelt"
           /\ Cardinality(RecordsOf(r)) = 1
           /\ \A i \in RecordsOf(r) :
                /\ store[i].id = result[r].id
                /\ store[i].collection = "inquiry"
                /\ store[i].doc = inquiry[r]

C8_Witness ==
  \E r, q \in Reqs :
    /\ Returned(r) /\ Returned(q)
    /\ req[r].files = << >> /\ req[q].files = << >>
    /\ req[r].source = "" /\ inquiry[r].source = "website"
    /\ req[q].source = "flyer" /\ inquiry[q].source = "flyer"

(***************************************************************************)
(* C9.  Sanitization is total and idempotent: for every filename the       *)
(* handler computes a safe_name of the same length in which each "/" and   *)
(* each "\" is replaced by "_" and every other character is kept, and      *)
(* sanitizing the safe_name again returns it unchanged.                    *)
(***************************************************************************)
C9_Sanitization ==
  \A r \in Reqs :
    /\ (pc[r] = "read" /\ loop = r) => ENABLED AwaitRead(r)
    /\ pc[r] \in {"reading", "writing"} =>
         LET n == CurFile(r).filename
             s == safe_name[r]
         IN  /\ Len(s) = Len(n)
             /\ \A i \in 1..Len(n) :
                  /\ s[i] \notin {"/", "\\"}
                  /\ n[i] \in {"/", "\\"} => s[i] = "_"
                  /\ n[i] \notin {"/", "\\"} => s[i] = n[i]
             /\ Sanitize(s) = s
    /\ \A k \in 1..Len(file_meta[r]) :
         /\ IsSanitizedOf(file_meta[r][k].filename, req[r].files[k].filename)
         /\ Sanitize(file_meta[r][k].filename) = file_meta[r][k].filename

C9_Witness ==
  \E r \in Reqs :
    /\ Len(file_meta[r]) = 1
    /\ \E i, j \in 1..Len(req[r].files[1].filename) :
         /\ req[r].files[1].filename[i] = "/"
         /\ req[r].files[1].filename[j] = "\\"
    /\ file_meta[r][1].filename \in DOMAIN disk

(***************************************************************************)
(* C10.  The disk write and the database insert of one request do not      *)
(* block the others: while a request is in its file write or in its        *)
(* create_document call, every other unfinished request can take a step.   *)
(***************************************************************************)
C10_IoDoesNotBlock ==
  \A r, q \in Reqs :
    (r # q /\ pc[r] \in {"writing", "inserting"} /\ ~Done(q)) => ENABLED Step(q)

=============================================================================
